---- MODULE Spec2Model ----
(***************************************************************************)
(* Model of brubeck/queryset.py: the AbstractQueryset CRUD contract and    *)
(* its three implementations DictQueryset, MongoQueryset, RedisQueryset.   *)
(*                                                                         *)
(* One behaviour is the life of one queryset instance.  Init fixes what    *)
(* the constructor and the build fix (which side of the merge conflict in  *)
(* queryset.py was kept, which class was instantiated, api_id, compress);  *)
(* every later step is one call of a public method.  `ret' records the     *)
(* last call and its outcome, `pre' the stores as they were before it.     *)
(* `inflight' is a destroy_many of RedisQueryset between its two pipeline  *)
(* rounds, `twin' and `twin_ret' are the hash and the last outcome of a    *)
(* second RedisQueryset; they are used by SpecConc and SpecTwin only.      *)
(***************************************************************************)
EXTENDS Integers, Sequences, FiniteSets, TLC

VARIABLES branch, backend, api_id, compress, empty_insert_raises,
          db_conn, collection, hash, pre, ret, inflight, twin, twin_ret

vars == <<branch, backend, api_id, compress, empty_insert_raises,
          db_conn, collection, hash, pre, ret, inflight, twin, twin_ret>>

config == <<branch, backend, api_id, compress, empty_insert_raises>>

(***************************************************************************)
(* Bounds                                                                  *)
(***************************************************************************)
\* longest list passed to a plural method or a verb
MaxLen == 2
\* most documents the Mongo collection is let to hold
MaxDocs == 2

(***************************************************************************)
(* Python values.  A value carries its type, so that the key 1 and the key *)
(* "1" are different dictionary keys while str(1) = "1".                   *)
(***************************************************************************)
StrV(s) == [t |-> "str", s |-> s]
IntV(s) == [t |-> "int", s |-> s]
NoneV == [t |-> "none", s |-> "None"]
Nil == [t |-> "-", s |-> "-"]

str(v) == [t |-> "str", s |-> v.s]

\* the Records callers pass: two identifiers, one of them not a string,
\* and two versions of the record "foo"
Shields ==
  {[id |-> StrV("foo"), data |-> NoneV], [id |-> StrV("foo"), data |-> StrV("foob")],
   [id |-> IntV("1"), data |-> NoneV]}

\* what callers pass as an identifier to read_* and destroy_*: the values of
\* the identifier field, raw and stringified
LookupIds ==
  IF api_id = "id"
  THEN {StrV("foo"), IntV("1"), StrV("1")}
  ELSE {NoneV, StrV("None"), StrV("foob")}

getattr(shield, name) == IF name = "id" THEN shield.id ELSE shield.data

(***************************************************************************)
(* Status vocabulary                                                       *)
(***************************************************************************)
MSG_OK == "OK"
MSG_UPDATED == "Updated"
MSG_CREATED == "Created"
MSG_NOTFOUND == "Not Found"
MSG_FAILED == "Failed"

Statuses == {MSG_OK, MSG_UPDATED, MSG_CREATED, MSG_NOTFOUND, MSG_FAILED}

(***************************************************************************)
(* Payloads: every object a method can hand back or store, tagged by kind. *)
(***************************************************************************)
Obj(shield) == [k |-> "shield", id |-> shield.id, data |-> shield.data]
to_python(shield) == [k |-> "plain", id |-> shield.id, data |-> shield.data]
to_json(shield) == [k |-> "json", id |-> shield.id, data |-> shield.data]
zlib_compress(v) == [k |-> "zlib(" \o v.k \o ")", id |-> v.id, data |-> v.data]
zlib_ok(v) == v.k = "zlib(json)"
zlib_decompress(v) == [k |-> "json", id |-> v.id, data |-> v.data]
json_loads(v) ==
  [k |-> IF v.k = "json" THEN "plain" ELSE "ValueError", id |-> v.id, data |-> v.data]
IdP(v) == [k |-> "id", id |-> v, data |-> Nil]
StrP(s) == [k |-> "str", id |-> StrV(s), data |-> Nil]
None == [k |-> "none", id |-> Nil, data |-> Nil]
EmptyList == [k |-> "list", id |-> Nil, data |-> Nil]
ObjectId == [k |-> "objectid", id |-> Nil, data |-> Nil]
MongoDoc(p) == [k |-> "doc", id |-> p.id, data |-> p.data]

\* a (status, payload) tuple, and any returned object that is not one
Pair(status, payload) == [shape |-> "pair", status |-> status, payload |-> payload]
Bare(payload) == [shape |-> "bare", status |-> "-", payload |-> payload]

(***************************************************************************)
(* Outcome of one method call: the store afterwards, the exception raised  *)
(* ("none" when the call returns), and the returned object: a list/tuple   *)
(* of elements (list = TRUE) or a single element (list = FALSE).           *)
(***************************************************************************)
Returns(st, elem) == [st |-> st, raised |-> "none", list |-> FALSE, out |-> <<elem>>]
ReturnsList(st, elems) == [st |-> st, raised |-> "none", list |-> TRUE, out |-> elems]
Raises(st, exc) == [st |-> st, raised |-> exc, list |-> FALSE, out |-> <<>>]

\* [One(x) for x in xs]: the calls run in order on the store the previous
\* one left; the first one that raises ends the comprehension.
ListComp(One(_, _), st, xs) ==
  LET run[i \in 0..Len(xs)] ==
        IF i = 0 THEN ReturnsList(st, <<>>)
        ELSE LET p == run[i - 1] IN
             IF p.raised # "none" THEN p
             ELSE LET r == One(p.st, xs[i]) IN
                  IF r.raised # "none" THEN Raises(r.st, r.raised)
                  ELSE ReturnsList(r.st, p.out \o r.out)
  IN run[Len(xs)]

(***************************************************************************)
(* Mappings (a Python dict, a Redis hash)                                  *)
(***************************************************************************)
EmptyMap == [x \in {} |-> None]
Put(f, key, v) == [x \in (DOMAIN f) \cup {key} |-> IF x = key THEN v ELSE f[x]]
Del(f, key) == [x \in (DOMAIN f) \ {key} |-> f[x]]
\* the orders in which the entries of a mapping can be enumerated
Orders(S) == {o \in [1..Cardinality(S) -> S] : \A i, j \in DOMAIN o : i # j => o[i] # o[j]}

(***************************************************************************)
(* DictQueryset                                                            *)
(***************************************************************************)
DictCreateOne(db, shield) ==
  LET status == IF shield.id \in DOMAIN db THEN MSG_UPDATED ELSE MSG_CREATED
      shield_key == str(getattr(shield, api_id))
  IN Returns(Put(db, shield_key, to_python(shield)), Pair(status, Obj(shield)))

DictCreateMany(db, shields) == ListComp(DictCreateOne, db, shields)

DictReadAll(db, order) ==
  ReturnsList(db, [i \in 1..Len(order) |-> Pair(MSG_OK, db[order[i]])])

DictReadOne(db, iid) ==
  IF str(iid) \in DOMAIN db
  THEN Returns(db, Pair(MSG_UPDATED, db[str(iid)]))
  ELSE Raises(db, "FourOhFourException")

DictReadMany(db, ids) == ListComp(DictReadOne, db, ids)

DictUpdateOne(db, shield) ==
  LET shield_key == str(getattr(shield, api_id))
  IN Returns(Put(db, shield_key, to_python(shield)), Pair(MSG_UPDATED, Obj(shield)))

DictUpdateMany(db, shields) == ListComp(DictUpdateOne, db, shields)

\* destroy_one handing back the identifier it was given
DictDestroyOneEcho(db, item_id) ==
  IF item_id \notin DOMAIN db THEN Raises(db, "FourOhFourException")
  ELSE IF branch = "HEAD" THEN Raises(Del(db, item_id), "NameError")
  ELSE Returns(Del(db, item_id), Pair(MSG_UPDATED, IdP(item_id)))

\* The return statement is inside an unresolved merge conflict: the HEAD
\* side names `shield', which is not defined in this method, the other
\* side names `datum'.  Either way the entry is deleted first.
DictDestroyOne(db, item_id) ==
  IF item_id \notin DOMAIN db THEN Raises(db, "FourOhFourException")
  ELSE IF branch = "HEAD" THEN Raises(Del(db, item_id), "NameError")
  ELSE Returns(Del(db, item_id), Pair(MSG_UPDATED, db[item_id]))

DictDestroyMany(db, ids) == ListComp(DictDestroyOne, db, ids)

(***************************************************************************)
(* MongoQueryset.  __init__ sets self.collection and self.api_id only and  *)
(* does not call the base constructor: self.db_conn and self.id_field are  *)
(* never assigned, so reading either raises AttributeError.                *)
(***************************************************************************)
MongoReadAll(coll) ==
  ReturnsList(coll, [i \in 1..Len(coll) |-> Bare(coll[i])])

\* i is an identifier, which has no _meta
MongoReadOne(coll, i) == Raises(coll, "AttributeError")

\* self.id_field is read while the filter is built, before find() is called
MongoReadMany(coll, ids) == Raises(coll, "AttributeError")

\* insert() returns the _id of the new document; nothing is looked up first
MongoCreateOne(coll, shield) ==
  Returns(Append(coll, MongoDoc(to_python(shield))), Bare(ObjectId))

\* self.id_field is read in the first iteration of the loop; with no shield
\* the loop is skipped and insert() is handed an empty generator.
MongoCreateMany(coll, shields) ==
  IF Len(shields) > 0 THEN Raises(coll, "AttributeError")
  ELSE IF empty_insert_raises THEN Raises(coll, "InvalidOperation")
  ELSE ReturnsList(coll, <<Bare(EmptyList), Bare(EmptyList), Bare(EmptyList)>>)

\* self.db_conn is read in the first iteration of the loop
MongoUpdateMany(coll, shields) ==
  IF Len(shields) > 0 THEN Raises(coll, "AttributeError")
  ELSE ReturnsList(coll, <<Bare(EmptyList), Bare(EmptyList)>>)

MongoUpdateOne(coll, shield) == MongoUpdateMany(coll, <<shield>>)

\* only KeyError is caught
MongoDestroyMany(coll, item_ids) ==
  IF Len(item_ids) > 0 THEN Raises(coll, "AttributeError")
  ELSE ReturnsList(coll, <<Bare(EmptyList), Bare(EmptyList)>>)

MongoDestroyOne(coll, item_id) == MongoDestroyMany(coll, <<item_id>>)

(***************************************************************************)
(* The Redis hash self.api_id as redis-py presents it: keys are sent as    *)
(* str(key); hset replies 1 for a new field and 0 for an overwritten one,  *)
(* hget replies the value or None, hdel replies the number of fields it    *)
(* removed.                                                                *)
(***************************************************************************)
IntP(n) == [k |-> "int", id |-> IntV(n), data |-> Nil]
Truthy(x) == x # None /\ x # IntP("0")

HSet(h, key, value) ==
  [h |-> Put(h, str(key), value),
   reply |-> IF str(key) \in DOMAIN h THEN IntP("0") ELSE IntP("1")]
HGet(h, key) ==
  [h |-> h, reply |-> IF str(key) \in DOMAIN h THEN h[str(key)] ELSE None]
HDel(h, key) ==
  [h |-> Del(h, str(key)),
   reply |-> IF str(key) \in DOMAIN h THEN IntP("1") ELSE IntP("0")]
HVals(h, order) == [i \in 1..Len(order) |-> h[order[i]]]

Command(h, c) ==
  CASE c.cmd = "hset" -> HSet(h, c.key, c.value)
    [] c.cmd = "hget" -> HGet(h, c.key)
    [] c.cmd = "hdel" -> HDel(h, c.key)

\* pipe.execute(): the queued commands run in order, one reply each
PipeExecute(h, cmds) ==
  LET run[i \in 0..Len(cmds)] ==
        IF i = 0 THEN [h |-> h, replies |-> <<>>]
        ELSE LET r == Command(run[i - 1].h, cmds[i])
             IN [h |-> r.h, replies |-> Append(run[i - 1].replies, r.reply)]
  IN run[Len(cmds)]

(***************************************************************************)
(* RedisQueryset                                                           *)
(***************************************************************************)
RedisSetValue(shield) ==
  IF compress THEN zlib_compress(to_json(shield)) ELSE to_json(shield)

\* _readvalue that parses what it was handed without inflating it first
RedisReadValueNoInflate(value) ==
  IF Truthy(value) THEN json_loads(value) ELSE None

RedisReadValue(value) ==
  IF compress
  THEN IF zlib_ok(value) THEN json_loads(zlib_decompress(value)) ELSE value
  ELSE IF Truthy(value) THEN json_loads(value) ELSE None

MessageFactory(fail_status, success_status, x) ==
  IF Truthy(x) THEN success_status ELSE fail_status

HSetOf(shield) ==
  [cmd |-> "hset", key |-> str(getattr(shield, api_id)), value |-> RedisSetValue(shield)]

RedisCreateOne(h, shield) ==
  LET result == HSet(h, str(getattr(shield, api_id)), RedisSetValue(shield))
  IN IF Truthy(result.reply)
     THEN Returns(result.h, Pair(MSG_CREATED, Obj(shield)))
     ELSE Returns(result.h, Pair(MSG_UPDATED, Obj(shield)))

RedisCreateMany(h, shields) ==
  LET r == PipeExecute(h, [i \in 1..Len(shields) |-> HSetOf(shields[i])])
  IN ReturnsList(r.h, [i \in 1..Len(shields) |->
       Pair(MessageFactory(MSG_UPDATED, MSG_CREATED, r.replies[i]), Obj(shields[i]))])

RedisReadAll(h, order) ==
  LET vals == HVals(h, order)
  IN ReturnsList(h, [i \in 1..Len(vals) |-> Pair(MSG_OK, RedisReadValue(vals[i]))])

RedisReadOne(h, shield_id) ==
  LET result == HGet(h, shield_id).reply
  IN IF Truthy(result)
     THEN Returns(h, Pair(MSG_OK, RedisReadValue(result)))
     ELSE Returns(h, Pair(MSG_FAILED, IdP(shield_id)))

RedisReadMany(h, shield_ids) ==
  LET r == PipeExecute(h, [i \in 1..Len(shield_ids) |->
                             [cmd |-> "hget", key |-> str(shield_ids[i])]])
  IN ReturnsList(r.h, [i \in 1..Len(shield_ids) |->
       Pair(MessageFactory(MSG_FAILED, MSG_OK, r.replies[i]),
            RedisReadValue(r.replies[i]))])

RedisUpdateOne(h, shield) ==
  LET result == HSet(h, str(getattr(shield, api_id)), RedisSetValue(shield))
  IN Returns(result.h,
       Pair(MessageFactory(MSG_UPDATED, MSG_CREATED, result.reply), Obj(shield)))

RedisUpdateMany(h, shields) ==
  LET r == PipeExecute(h, [i \in 1..Len(shields) |-> HSetOf(shields[i])])
  IN ReturnsList(r.h, [i \in 1..Len(shields) |->
       Pair(MessageFactory(MSG_UPDATED, MSG_CREATED, r.replies[i]), Obj(shields[i]))])

RedisDestroyOne(h, shield_id) ==
  LET r == PipeExecute(h, <<[cmd |-> "hget", key |-> shield_id],
                            [cmd |-> "hdel", key |-> shield_id]>>)
  IN IF Truthy(r.replies[2])
     THEN Returns(r.h, Pair(MSG_UPDATED, RedisReadValue(r.replies[1])))
     ELSE Returns(r.h, Bare(StrP(MSG_NOTFOUND)))

\* destroy_many up to its first pipe.execute(): one hget per id
RedisDestroyManyFetch(h, ids) ==
  PipeExecute(h, [i \in 1..Len(ids) |-> [cmd |-> "hget", key |-> ids[i]]])

\* destroy_many from there on: one hdel per id, the second pipe.execute(),
\* and the zip of the delete statuses with the fetched values
RedisDestroyManyDelete(h, ids, values_results) ==
  LET delete_round == PipeExecute(h, [i \in 1..Len(ids) |->
                                        [cmd |-> "hdel", key |-> ids[i]]])
  IN ReturnsList(delete_round.h, [i \in 1..Len(ids) |->
       Pair(MessageFactory(MSG_FAILED, MSG_UPDATED, delete_round.replies[i]),
            RedisReadValue(values_results[i]))])

\* destroy_many fetching and deleting one id after the other
RedisDestroyManyInterleaved(h, ids) ==
  LET run[i \in 0..Len(ids)] ==
        IF i = 0 THEN [h |-> h, out |-> <<>>]
        ELSE LET r == PipeExecute(run[i - 1].h, <<[cmd |-> "hget", key |-> ids[i]],
                                                  [cmd |-> "hdel", key |-> ids[i]]>>)
             IN [h |-> r.h,
                 out |-> Append(run[i - 1].out,
                           Pair(MessageFactory(MSG_FAILED, MSG_UPDATED, r.replies[2]),
                                RedisReadValue(r.replies[1])))]
  IN ReturnsList(run[Len(ids)].h, run[Len(ids)].out)

RedisDestroyMany(h, ids) ==
  LET values_round == RedisDestroyManyFetch(h, ids)
  IN RedisDestroyManyDelete(values_round.h, ids, values_round.replies)

(***************************************************************************)
(* Method resolution: self is an instance of the class Init chose, st is   *)
(* the store that class works on.                                          *)
(***************************************************************************)
Store ==
  CASE backend = "dict" -> db_conn
    [] backend = "mongo" -> collection
    [] backend = "redis" -> hash

create_one(st, shield) ==
  CASE backend = "dict" -> DictCreateOne(st, shield)
    [] backend = "mongo" -> MongoCreateOne(st, shield)
    [] backend = "redis" -> RedisCreateOne(st, shield)

create_many(st, shields) ==
  CASE backend = "dict" -> DictCreateMany(st, shields)
    [] backend = "mongo" -> MongoCreateMany(st, shields)
    [] backend = "redis" -> RedisCreateMany(st, shields)

read_all(st, order) ==
  CASE backend = "dict" -> DictReadAll(st, order)
    [] backend = "mongo" -> MongoReadAll(st)
    [] backend = "redis" -> RedisReadAll(st, order)

read_one(st, iid) ==
  CASE backend = "dict" -> DictReadOne(st, iid)
    [] backend = "mongo" -> MongoReadOne(st, iid)
    [] backend = "redis" -> RedisReadOne(st, iid)

read_many(st, ids) ==
  CASE backend = "dict" -> DictReadMany(st, ids)
    [] backend = "mongo" -> MongoReadMany(st, ids)
    [] backend = "redis" -> RedisReadMany(st, ids)

update_one(st, shield) ==
  CASE backend = "dict" -> DictUpdateOne(st, shield)
    [] backend = "mongo" -> MongoUpdateOne(st, shield)
    [] backend = "redis" -> RedisUpdateOne(st, shield)

update_many(st, shields) ==
  CASE backend = "dict" -> DictUpdateMany(st, shields)
    [] backend = "mongo" -> MongoUpdateMany(st, shields)
    [] backend = "redis" -> RedisUpdateMany(st, shields)

destroy_one(st, iid) ==
  CASE backend = "dict" -> DictDestroyOne(st, iid)
    [] backend = "mongo" -> MongoDestroyOne(st, iid)
    [] backend = "redis" -> RedisDestroyOne(st, iid)

destroy_many(st, ids) ==
  CASE backend = "dict" -> DictDestroyMany(st, ids)
    [] backend = "mongo" -> MongoDestroyMany(st, ids)
    [] backend = "redis" -> RedisDestroyMany(st, ids)

(***************************************************************************)
(* The state machine                                                       *)
(***************************************************************************)
SeqsUpTo(S, n) == UNION {[1..m -> S] : m \in 0..n}

\* the orders in which read_all may meet the entries of the store
ReadOrders == IF backend = "mongo" THEN {<<>>} ELSE Orders(DOMAIN Store)

Stores == [db_conn |-> db_conn, collection |-> collection, hash |-> hash]

NoCall ==
  [verb |-> "-", islist |-> FALSE, op |-> "-", args |-> <<>>, store_failed |-> FALSE,
   retries |-> 0, raised |-> "none", list |-> FALSE, out |-> <<>>]

Idle == [pc |-> "idle", ids |-> <<>>, values_results |-> <<>>]

\* what SpecConc and SpecTwin add to the state
aux == <<inflight, twin, twin_ret>>

\* the truth value of an identifier in `if not ids'
Falsy(v) == v.t = "none" \/ v.s = "" \/ (v.t = "int" /\ v.s = "0")

\* the method each verb of AbstractQueryset hands its argument to; the
\* argument is a list (islist) of items or one item that is not a list
CreateDispatch(islist, shields) ==
  IF islist THEN "create_many" ELSE "create_one"

\* read choosing by the number of items
ReadDispatchByArity(islist, ids) ==
  IF Len(ids) = 0 THEN "read_all"
  ELSE IF Len(ids) = 1 THEN "read_one" ELSE "read_many"

ReadDispatch(islist, ids) ==
  IF (islist /\ Len(ids) = 0) \/ (~islist /\ Falsy(ids[1])) THEN "read_all"
  ELSE IF islist THEN "read_many" ELSE "read_one"

UpdateDispatch(islist, shields) ==
  IF islist THEN "update_many" ELSE "update_one"

DestroyDispatch(islist, item_ids) ==
  IF islist THEN "destroy_many" ELSE "destroy_one"

\* one call: verb is the dispatching method the caller used ("-" when the
\* caller named the method itself), islist whether the argument was a list,
\* op the method that ran, r its outcome
Call(verb, islist, op, args, r) ==
  /\ backend = "mongo" => Len(r.st) <= MaxDocs
  /\ pre' = Stores
  /\ db_conn' = IF backend = "dict" THEN r.st ELSE db_conn
  /\ collection' = IF backend = "mongo" THEN r.st ELSE collection
  /\ hash' = IF backend = "redis" THEN r.st ELSE hash
  /\ ret' = [verb |-> verb, islist |-> islist, op |-> op, args |-> args,
             store_failed |-> FALSE, retries |-> 0,
             raised |-> r.raised, list |-> r.list, out |-> r.out]
  /\ UNCHANGED <<config, aux>>

Init ==
  /\ branch \in {"HEAD", "theirs"}
  /\ backend \in (IF branch = "HEAD" THEN {"dict", "mongo"} ELSE {"dict", "redis"})
  /\ api_id \in (IF backend = "mongo" THEN {"id"} ELSE {"id", "data"})
  /\ compress \in (IF backend = "redis" THEN BOOLEAN ELSE {FALSE})
  /\ empty_insert_raises \in (IF backend = "mongo" THEN BOOLEAN ELSE {FALSE})
  /\ db_conn = EmptyMap
  /\ collection = <<>>
  /\ hash = EmptyMap
  /\ pre = [db_conn |-> EmptyMap, collection |-> <<>>, hash |-> EmptyMap]
  /\ ret = NoCall
  /\ inflight = Idle
  /\ twin = EmptyMap
  /\ twin_ret = NoCall

CreateOne ==
  \E shield \in Shields :
    Call("-", FALSE, "create_one", <<shield>>, create_one(Store, shield))

CreateMany ==
  \E shields \in SeqsUpTo(Shields, MaxLen) :
    Call("-", TRUE, "create_many", shields, create_many(Store, shields))

ReadAll ==
  \E order \in ReadOrders :
    Call("-", TRUE, "read_all", <<>>, read_all(Store, order))

ReadOne ==
  \E iid \in LookupIds :
    Call("-", FALSE, "read_one", <<iid>>, read_one(Store, iid))

ReadMany ==
  \E ids \in SeqsUpTo(LookupIds, MaxLen) :
    Call("-", TRUE, "read_many", ids, read_many(Store, ids))

UpdateOne ==
  \E shield \in Shields :
    Call("-", FALSE, "update_one", <<shield>>, update_one(Store, shield))

UpdateMany ==
  \E shields \in SeqsUpTo(Shields, MaxLen) :
    Call("-", TRUE, "update_many", shields, update_many(Store, shields))

DestroyOne ==
  \E iid \in LookupIds :
    Call("-", FALSE, "destroy_one", <<iid>>, destroy_one(Store, iid))

DestroyMany ==
  \E ids \in SeqsUpTo(LookupIds, MaxLen) :
    Call("-", TRUE, "destroy_many", ids, destroy_many(Store, ids))

\* AbstractQueryset.create / read / update / destroy
Create ==
  \E islist \in BOOLEAN, shields \in SeqsUpTo(Shields, MaxLen) :
    /\ ~islist => Len(shields) = 1
    /\ IF CreateDispatch(islist, shields) = "create_many"
       THEN Call("create", islist, "create_many", shields, create_many(Store, shields))
       ELSE Call("create", islist, "create_one", shields, create_one(Store, shields[1]))

Read ==
  \E islist \in BOOLEAN, ids \in SeqsUpTo(LookupIds, MaxLen), order \in ReadOrders :
    /\ ~islist => Len(ids) = 1
    /\ LET method == ReadDispatch(islist, ids) IN
       IF method = "read_all"
       THEN Call("read", islist, "read_all", ids, read_all(Store, order))
       ELSE /\ order = CHOOSE o \in ReadOrders : TRUE
            /\ IF method = "read_many"
               THEN Call("read", islist, "read_many", ids, read_many(Store, ids))
               ELSE Call("read", islist, "read_one", ids, read_one(Store, ids[1]))

Update ==
  \E islist \in BOOLEAN, shields \in SeqsUpTo(Shields, MaxLen) :
    /\ ~islist => Len(shields) = 1
    /\ IF UpdateDispatch(islist, shields) = "update_many"
       THEN Call("update", islist, "update_many", shields, update_many(Store, shields))
       ELSE Call("update", islist, "update_one", shields, update_one(Store, shields[1]))

Destroy ==
  \E islist \in BOOLEAN, ids \in SeqsUpTo(LookupIds, MaxLen) :
    /\ ~islist => Len(ids) = 1
    /\ IF DestroyDispatch(islist, ids) = "destroy_many"
       THEN Call("destroy", islist, "destroy_many", ids, destroy_many(Store, ids))
       ELSE Call("destroy", islist, "destroy_one", ids, destroy_one(Store, ids[1]))

Next ==
  \/ CreateOne \/ CreateMany
  \/ ReadAll \/ ReadOne \/ ReadMany
  \/ UpdateOne \/ UpdateMany
  \/ DestroyOne \/ DestroyMany
  \/ Create \/ Read \/ Update \/ Destroy

Spec == Init /\ [][Next]_vars

(***************************************************************************)
(* SpecIO: the document store or the Redis server fails a command during   *)
(* a plural call (connection lost, operation failure).  No plural method   *)
(* wraps its store commands in a try block (MongoQueryset.destroy_many     *)
(* catches KeyError only) and none repeats a command, so the exception of  *)
(* the driver leaves the method as it is.                                  *)
(***************************************************************************)
\* a plural method of RedisQueryset whose pipe.execute() raises
RedisPluralDown(h, xs) == Raises(h, "ConnectionError")

\* MongoQueryset.create_many whose collection.insert raises; a non-empty
\* list never gets as far as the store (see MongoCreateMany)
MongoCreateManyDown(coll, shields) ==
  IF Len(shields) > 0 THEN MongoCreateMany(coll, shields)
  ELSE Raises(coll, "ConnectionFailure")

\* a call during which the store failed a command
CallDown(op, args, r) ==
  /\ pre' = Stores
  /\ ret' = [verb |-> "-", islist |-> TRUE, op |-> op, args |-> args,
             store_failed |-> r.raised \in {"ConnectionError", "ConnectionFailure"},
             retries |-> 0,
             raised |-> r.raised, list |-> r.list, out |-> r.out]
  /\ UNCHANGED <<config, aux, db_conn, collection, hash>>

InitIO == Init /\ backend \in {"mongo", "redis"}

CreateManyDown ==
  \E shields \in SeqsUpTo(Shields, MaxLen) :
    CallDown("create_many", shields,
             IF backend = "redis" THEN RedisPluralDown(hash, shields)
             ELSE MongoCreateManyDown(collection, shields))

ReadManyDown ==
  /\ backend = "redis"
  /\ \E ids \in SeqsUpTo(LookupIds, MaxLen) :
       CallDown("read_many", ids, RedisPluralDown(hash, ids))

UpdateManyDown ==
  /\ backend = "redis"
  /\ \E shields \in SeqsUpTo(Shields, MaxLen) :
       CallDown("update_many", shields, RedisPluralDown(hash, shields))

DestroyManyDown ==
  /\ backend = "redis"
  /\ \E ids \in SeqsUpTo(LookupIds, MaxLen) :
       CallDown("destroy_many", ids, RedisPluralDown(hash, ids))

NextIO ==
  \/ Next
  \/ CreateManyDown \/ ReadManyDown \/ UpdateManyDown \/ DestroyManyDown

SpecIO == InitIO /\ [][NextIO]_vars

(***************************************************************************)
(* SpecConc: two clients of one Redis hash.  This client runs destroy_many *)
(* as the two pipe.execute() round trips it is; the server runs each       *)
(* pipeline without interruption but serves the other client between the   *)
(* two.  The other client is a RedisQueryset of the same configuration     *)
(* running create_one / update_one (an hset) or destroy_one (an hdel).     *)
(* pre is the store as the delete round finds it.                          *)
(***************************************************************************)
InitConc == Init /\ backend = "redis"

OtherWrite ==
  /\ \E shield \in Shields : hash' = RedisCreateOne(hash, shield).st
  /\ UNCHANGED <<config, db_conn, collection, pre, ret, inflight, twin, twin_ret>>

OtherDelete ==
  /\ \E item_id \in LookupIds : hash' = RedisDestroyOne(hash, item_id).st
  /\ UNCHANGED <<config, db_conn, collection, pre, ret, inflight, twin, twin_ret>>

DestroyManyFetch ==
  /\ inflight.pc = "idle"
  /\ \E ids \in SeqsUpTo(LookupIds, MaxLen) :
       LET values_round == RedisDestroyManyFetch(hash, ids)
       IN /\ hash' = values_round.h
          /\ inflight' = [pc |-> "fetched", ids |-> ids,
                          values_results |-> values_round.replies]
  /\ UNCHANGED <<config, db_conn, collection, pre, ret, twin, twin_ret>>

DestroyManyDelete ==
  /\ inflight.pc = "fetched"
  /\ LET r == RedisDestroyManyDelete(hash, inflight.ids, inflight.values_results)
     IN /\ pre' = Stores
        /\ hash' = r.st
        /\ ret' = [verb |-> "-", islist |-> TRUE, op |-> "destroy_many",
                   args |-> inflight.ids, store_failed |-> FALSE, retries |-> 0,
                   raised |-> r.raised, list |-> r.list, out |-> r.out]
  /\ inflight' = Idle
  /\ UNCHANGED <<config, db_conn, collection, twin, twin_ret>>

NextConc == OtherWrite \/ OtherDelete \/ DestroyManyFetch \/ DestroyManyDelete

SpecConc == InitConc /\ [][NextConc]_vars

(***************************************************************************)
(* SpecTwin: two RedisQuerysets, one built with compress=False over hash   *)
(* and one built with compress=True over twin, are driven through the same *)
(* calls.  Each call runs on the first and then, with the same arguments   *)
(* (and the same hvals order), on the second; compress is self.compress of *)
(* the instance that runs next.                                            *)
(***************************************************************************)
TwinCalls ==
  {[op |-> o, args |-> <<x>>] : o \in {"create_one", "update_one"}, x \in Shields}
    \cup {[op |-> o, args |-> xs] : o \in {"create_many", "update_many"},
                                    xs \in SeqsUpTo(Shields, MaxLen)}
    \cup {[op |-> o, args |-> <<x>>] : o \in {"read_one", "destroy_one"}, x \in LookupIds}
    \cup {[op |-> o, args |-> xs] : o \in {"read_many", "destroy_many"},
                                    xs \in SeqsUpTo(LookupIds, MaxLen)}
    \cup {[op |-> "read_all", args |-> <<>>]}

RunOp(op, st, args, order) ==
  CASE op = "create_one" -> create_one(st, args[1])
    [] op = "create_many" -> create_many(st, args)
    [] op = "read_all" -> read_all(st, order)
    [] op = "read_one" -> read_one(st, args[1])
    [] op = "read_many" -> read_many(st, args)
    [] op = "update_one" -> update_one(st, args[1])
    [] op = "update_many" -> update_many(st, args)
    [] op = "destroy_one" -> destroy_one(st, args[1])
    [] op = "destroy_many" -> destroy_many(st, args)

InitTwin == Init /\ backend = "redis" /\ compress = FALSE

TwinPlain ==
  /\ inflight.pc = "idle"
  /\ \E c \in TwinCalls, order \in ReadOrders :
       LET r == RunOp(c.op, hash, c.args, order)
       IN /\ pre' = Stores
          /\ hash' = r.st
          /\ ret' = [verb |-> "-", islist |-> c.op \notin {"create_one", "read_one", "update_one", "destroy_one"},
                     op |-> c.op, args |-> c.args, store_failed |-> FALSE, retries |-> 0,
                     raised |-> r.raised, list |-> r.list, out |-> r.out]
          /\ inflight' = [pc |-> "twin", ids |-> order, values_results |-> <<>>]
  /\ compress' = TRUE
  /\ UNCHANGED <<branch, backend, api_id, empty_insert_raises, db_conn, collection,
                 twin, twin_ret>>

TwinCompressed ==
  /\ inflight.pc = "twin"
  /\ LET r == RunOp(ret.op, twin, ret.args, inflight.ids)
     IN /\ twin' = r.st
        /\ twin_ret' = [ret EXCEPT !.raised = r.raised, !.list = r.list, !.out = r.out]
  /\ inflight' = Idle
  /\ compress' = FALSE
  /\ UNCHANGED <<branch, backend, api_id, empty_insert_raises, db_conn, collection,
                 hash, pre, ret>>

NextTwin == TwinPlain \/ TwinCompressed

SpecTwin == InitTwin /\ [][NextTwin]_vars

(***************************************************************************)
(* Vocabulary of the properties                                            *)
(***************************************************************************)
PluralOps == {"create_many", "read_many", "update_many", "destroy_many"}

Returned == ret.raised = "none"

\* out is a sequence of (status, payload) tuples
IsPairs(out) ==
  \A i \in DOMAIN out : out[i].shape = "pair" /\ out[i].status \in Statuses

\* the identifier of a Record: the value of the configured identifier field
\* (MongoQueryset never reads api_id; its documents are told apart by id)
Ident(shield) == getattr(shield, api_id)

\* the identifier v is stored in the stores S
StoredIn(S, v) ==
  CASE backend = "dict" -> str(v) \in DOMAIN S.db_conn
    [] backend = "mongo" -> \E i \in DOMAIN S.collection : S.collection[i].id = v
    [] backend = "redis" -> str(v) \in DOMAIN S.hash

\* the plain data the stores S hold under the identifier v
HeldIn(S, v) ==
  CASE backend = "dict" -> {S.db_conn[str(v)]}
    [] backend = "mongo" ->
         {[k |-> "plain", id |-> S.collection[i].id, data |-> S.collection[i].data] :
            i \in {j \in DOMAIN S.collection : S.collection[j].id = v}}
    [] backend = "redis" ->
         {json_loads(IF compress THEN zlib_decompress(S.hash[str(v)]) ELSE S.hash[str(v)])}

\* every entry other than those of the identifiers in vs is the same in S and T
SameExcept(S, T, vs) ==
  LET keys == {str(v) : v \in vs} IN
  /\ (DOMAIN S.db_conn) \ keys = (DOMAIN T.db_conn) \ keys
  /\ \A x \in (DOMAIN S.db_conn) \ keys : S.db_conn[x] = T.db_conn[x]
  /\ (DOMAIN S.hash) \ keys = (DOMAIN T.hash) \ keys
  /\ \A x \in (DOMAIN S.hash) \ keys : S.hash[x] = T.hash[x]
  /\ SelectSeq(S.collection, LAMBDA d : d.id \notin vs)
       = SelectSeq(T.collection, LAMBDA d : d.id \notin vs)

Distinct(xs) == \A i, j \in DOMAIN xs : i # j => str(xs[i]) # str(xs[j])

(***************************************************************************)
(* C1: a plural operation called with a list of n inputs returns a list of *)
(* exactly n (status, payload) tuples (at most it raises the not-found     *)
(* signal), and the tuple at position i carries the Record passed at       *)
(* position i (create_many, update_many).                                  *)
(***************************************************************************)
C1_BatchResultShape ==
  ret.op \in PluralOps =>
    /\ ret.raised \in {"none", "FourOhFourException"}
    /\ Returned =>
         /\ ret.list
         /\ Len(ret.out) = Len(ret.args)
         /\ IsPairs(ret.out)
         /\ ret.op \in {"create_many", "update_many"} =>
              \A i \in DOMAIN ret.out : ret.out[i].payload = Obj(ret.args[i])

(***************************************************************************)
(* C2: create_one(item) returns (CREATED, item) when the item's identifier *)
(* was not stored and (UPDATED, item) when it was, and afterwards the      *)
(* store holds the plain data of the item under that identifier, once.     *)
(***************************************************************************)
C2_CreateOneUpsert ==
  ret.op = "create_one" =>
    LET shield == ret.args[1] IN
    /\ Returned
    /\ ret.out = <<Pair(IF StoredIn(pre, Ident(shield)) THEN MSG_UPDATED ELSE MSG_CREATED,
                        Obj(shield))>>
    /\ StoredIn(Stores, Ident(shield))
    /\ HeldIn(Stores, Ident(shield)) = {to_python(shield)}

(***************************************************************************)
(* C3: create_many(items) returns, in input order, UPDATED for an item     *)
(* whose identifier was stored before the call or written by an earlier    *)
(* position of the batch and CREATED otherwise, and afterwards every       *)
(* item's identifier is stored exactly once.                               *)
(***************************************************************************)
C3_CreateManyStatuses ==
  ret.op = "create_many" =>
    /\ Returned
    /\ ret.list
    /\ Len(ret.out) = Len(ret.args)
    /\ \A i \in DOMAIN ret.out :
         /\ ret.out[i].shape = "pair"
         /\ ret.out[i].status =
              IF \/ StoredIn(pre, Ident(ret.args[i]))
                 \/ \E j \in 1..(i - 1) : Ident(ret.args[j]) = Ident(ret.args[i])
              THEN MSG_UPDATED ELSE MSG_CREATED
    /\ \A i \in DOMAIN ret.args :
         /\ StoredIn(Stores, Ident(ret.args[i]))
         /\ Cardinality(HeldIn(Stores, Ident(ret.args[i]))) = 1

(***************************************************************************)
(* C4: once N items with pairwise distinct identifiers have been created   *)
(* in an empty store, read_all returns exactly N tuples, every status is   *)
(* OK, and the payloads are the plain data of the created items.           *)
(***************************************************************************)
C4_ReadAllAfterCreate ==
  ( /\ ret.op \in {"create_one", "create_many"}
    /\ Returned
    /\ pre = [db_conn |-> EmptyMap, collection |-> <<>>, hash |-> EmptyMap]
    /\ \A i, j \in DOMAIN ret.args : i # j => Ident(ret.args[i]) # Ident(ret.args[j]) )
  => \A order \in ReadOrders :
       LET r == read_all(Store, order) IN
       /\ r.raised = "none"
       /\ Len(r.out) = Len(ret.args)
       /\ IsPairs(r.out)
       /\ \A i \in DOMAIN r.out : r.out[i].status = MSG_OK
       /\ {r.out[i].payload : i \in DOMAIN r.out}
            = {to_python(ret.args[i]) : i \in DOMAIN ret.args}

(***************************************************************************)
(* C5: read_one(id) on a stored identifier returns (OK, payload) where     *)
(* payload is the plain data stored under that identifier.                 *)
(***************************************************************************)
C5_ReadOneStored ==
  (ret.op = "read_one" /\ StoredIn(pre, ret.args[1])) =>
    /\ Returned
    /\ Len(ret.out) = 1
    /\ ret.out[1].shape = "pair"
    /\ ret.out[1].status = MSG_OK
    /\ HeldIn(pre, ret.args[1]) = {ret.out[1].payload}

(***************************************************************************)
(* C6: read_one(id), also through read(id), on an identifier that is not   *)
(* stored does not raise: it returns (FAILED, id), and the store is        *)
(* unchanged.                                                              *)
(***************************************************************************)
C6_ReadOneAbsent ==
  (ret.op = "read_one" /\ ~StoredIn(pre, ret.args[1])) =>
    /\ Returned
    /\ ret.out = <<Pair(MSG_FAILED, IdP(ret.args[1]))>>
    /\ Stores = pre

(***************************************************************************)
(* C7: read_many(ids) with stored and absent ids returns without raising;  *)
(* a position whose id is stored carries (OK, the stored payload), one     *)
(* whose id is absent carries a status other than OK.                      *)
(***************************************************************************)
C7_ReadManyPerItem ==
  ret.op = "read_many" =>
    /\ Returned
    /\ Len(ret.out) = Len(ret.args)
    /\ \A i \in DOMAIN ret.out :
         /\ ret.out[i].shape = "pair"
         /\ IF StoredIn(pre, ret.args[i])
            THEN /\ ret.out[i].status = MSG_OK
                 /\ HeldIn(pre, ret.args[i]) = {ret.out[i].payload}
            ELSE ret.out[i].status \in Statuses \ {MSG_OK}

(***************************************************************************)
(* C8: update_one and update_many overwrite the stored value of each       *)
(* item's identifier and report UPDATED for every item, stored before or   *)
(* not; the returned payload is the updated item.                          *)
(***************************************************************************)
C8_UpdateAlwaysUpdated ==
  ret.op \in {"update_one", "update_many"} =>
    /\ Returned
    /\ Len(ret.out) = Len(ret.args)
    /\ \A i \in DOMAIN ret.out : ret.out[i] = Pair(MSG_UPDATED, Obj(ret.args[i]))
    /\ \A i \in DOMAIN ret.args :
         (\A j \in (i + 1)..Len(ret.args) : Ident(ret.args[j]) # Ident(ret.args[i]))
           => /\ StoredIn(Stores, Ident(ret.args[i]))
              /\ HeldIn(Stores, Ident(ret.args[i])) = {to_python(ret.args[i])}

(***************************************************************************)
(* C9: update_one(item) on a stored identifier changes the entry of that   *)
(* identifier only: read_one of it then returns the new fields, and no     *)
(* other entry is added, removed or altered.                               *)
(***************************************************************************)
C9_UpdateOneFrame ==
  (ret.op = "update_one" /\ StoredIn(pre, Ident(ret.args[1]))) =>
    LET shield == ret.args[1]
        r == read_one(Store, Ident(shield))
    IN /\ Returned
       /\ r.raised = "none"
       /\ Len(r.out) = 1
       /\ r.out[1].shape = "pair"
       /\ r.out[1].payload = to_python(shield)
       /\ SameExcept(pre, Stores, {Ident(shield)})
       /\ StoredIn(Stores, Ident(shield))

(***************************************************************************)
(* C10: destroy_many(ids) on one or more distinct stored identifiers       *)
(* reports UPDATED                                                         *)
(* for every id and removes exactly those: afterwards read_one of a        *)
(* destroyed id gives FAILED, and every other identifier is stored with    *)
(* the payload it had and reads as OK.                                     *)
(***************************************************************************)
C10_DestroyManyFrame ==
  ( /\ ret.op = "destroy_many"
    /\ Len(ret.args) > 0
    /\ Distinct(ret.args)
    /\ \A i \in DOMAIN ret.args : StoredIn(pre, ret.args[i]) )
  => /\ Returned
     /\ Len(ret.out) = Len(ret.args)
     /\ \A i \in DOMAIN ret.out :
          ret.out[i].shape = "pair" /\ ret.out[i].status = MSG_UPDATED
     /\ \A i \in DOMAIN ret.args :
          /\ ~StoredIn(Stores, ret.args[i])
          /\ LET r == read_one(Store, ret.args[i])
             IN r.raised = "none" /\ r.out[1].shape = "pair"
                /\ r.out[1].status = MSG_FAILED
     /\ SameExcept(pre, Stores, {ret.args[i] : i \in DOMAIN ret.args})
     /\ \A v \in LookupIds :
          (StoredIn(Stores, v) /\ \A i \in DOMAIN ret.args : str(v) # str(ret.args[i]))
            => LET r == read_one(Store, v)
               IN r.raised = "none" /\ r.out[1].shape = "pair"
                  /\ r.out[1].status = MSG_OK

(***************************************************************************)
(* C11 (as amended): a destroy_one result, or a position of a destroy_many *)
(* result, with status UPDATED carries as payload the plain data that was  *)
(* stored under the requested identifier, the deleted record.              *)
(***************************************************************************)
C11_DestroyPayloadIsRecord ==
  (ret.op \in {"destroy_one", "destroy_many"} /\ Returned) =>
    \A i \in DOMAIN ret.out :
      (ret.out[i].shape = "pair" /\ ret.out[i].status = MSG_UPDATED) =>
        /\ StoredIn(pre, ret.args[i])
        /\ HeldIn(pre, ret.args[i]) = {ret.out[i].payload}

\* C11 as stated: the payload of a successful destroy is an echo of the
\* requested identifier
C11_DestroyPayloadIsIdEcho ==
  (ret.op \in {"destroy_one", "destroy_many"} /\ Returned) =>
    \A i \in DOMAIN ret.out :
      (ret.out[i].shape = "pair" /\ ret.out[i].status = MSG_UPDATED) =>
        ret.out[i].payload = IdP(ret.args[i])

C11_Witness ==
  /\ ret.op = "destroy_many"
  /\ Returned
  /\ Len(ret.out) = 2
  /\ ret.out[1].status = MSG_UPDATED
  /\ ret.out[1].payload.k = "plain"

(***************************************************************************)
(* C12 (as amended): the verbs dispatch by the type of the argument: a     *)
(* list, whatever its length, goes to the plural variant and an argument   *)
(* that is not a list to the singular variant, except that read sends a    *)
(* falsy argument (the empty list, None) to read_all.                      *)
(***************************************************************************)
C12_DispatchByType ==
  ret.verb # "-" =>
    ret.op =
      IF ret.verb = "read" /\ ( \/ ret.islist /\ Len(ret.args) = 0
                                \/ ~ret.islist /\ Falsy(ret.args[1]) )
      THEN "read_all"
      ELSE IF ret.islist THEN ret.verb \o "_many" ELSE ret.verb \o "_one"

\* C12 as stated: the verbs dispatch by the number of items: none on read
\* goes to read_all, exactly one to the singular variant, more to the plural
C12_DispatchByArity ==
  ret.verb # "-" =>
    /\ (ret.verb = "read" /\ ret.islist /\ Len(ret.args) = 0) => ret.op = "read_all"
    /\ Len(ret.args) = 1 => ret.op = ret.verb \o "_one"
    /\ Len(ret.args) > 1 => ret.op = ret.verb \o "_many"

C12_Witness ==
  /\ ret.verb = "read"
  /\ ret.islist
  /\ Len(ret.args) = 1
  /\ ret.op = "read_many"

(***************************************************************************)
(* C13: a singular operation agrees with its plural counterpart on the     *)
(* one-element list: called on the same store with the same item, op_one   *)
(* returns the single element of what op_many returns (or both raise the   *)
(* same exception) and both leave the same store.                          *)
(***************************************************************************)
SingularOps == {"create_one", "read_one", "update_one", "destroy_one"}

PreStore ==
  CASE backend = "dict" -> pre.db_conn
    [] backend = "mongo" -> pre.collection
    [] backend = "redis" -> pre.hash

PluralOf(op, st, xs) ==
  CASE op = "create_one" -> create_many(st, xs)
    [] op = "read_one" -> read_many(st, xs)
    [] op = "update_one" -> update_many(st, xs)
    [] op = "destroy_one" -> destroy_many(st, xs)

C13_SingularAgreesWithPlural ==
  ret.op \in SingularOps =>
    LET many == PluralOf(ret.op, PreStore, ret.args) IN
    /\ many.raised = ret.raised
    /\ many.st = Store
    /\ Returned => many.list /\ ~ret.list /\ many.out = ret.out

(***************************************************************************)
(* C14: a singular operation that returns, returns exactly one             *)
(* (status, payload) tuple whose status is one of the five statuses;       *)
(* destroy_one on an absent identifier included.                           *)
(***************************************************************************)
C14_SingularReturnsOnePair ==
  (ret.op \in SingularOps /\ Returned) =>
    /\ ~ret.list
    /\ Len(ret.out) = 1
    /\ ret.out[1].shape = "pair"
    /\ ret.out[1].status \in Statuses

(***************************************************************************)
(* C15: a plural operation of MongoQueryset or RedisQueryset during which  *)
(* the store fails a command does not raise: it returns, with status       *)
(* FAILED for the items of the call, and the command is not repeated.      *)
(***************************************************************************)
C15_StoreFailureIsFailedStatus ==
  (ret.op \in PluralOps /\ ret.store_failed) =>
    /\ Returned
    /\ ret.retries = 0
    /\ Len(ret.out) = Len(ret.args)
    /\ \A i \in DOMAIN ret.out :
         ret.out[i].shape = "pair" /\ ret.out[i].status = MSG_FAILED

(***************************************************************************)
(* C16: DictQueryset addresses an item by one key in every operation, the  *)
(* stringified value of the api_id field: create_one reports UPDATED       *)
(* exactly when that key is stored, and destroy_one of an identifier that  *)
(* read_one finds does not raise not-found and removes the entry.          *)
(***************************************************************************)
C16_DictOneKeyEverywhere ==
  backend = "dict" =>
    /\ (ret.op = "create_one" /\ Returned) =>
         (ret.out[1].status = MSG_UPDATED
            <=> str(Ident(ret.args[1])) \in DOMAIN pre.db_conn)
    /\ (ret.op = "destroy_one" /\ DictReadOne(pre.db_conn, ret.args[1]).raised = "none") =>
         /\ ret.raised # "FourOhFourException"
         /\ str(ret.args[1]) \notin DOMAIN db_conn

(***************************************************************************)
(* C17: in DictQueryset read_many(ids) and destroy_many(ids) raise the     *)
(* not-found signal whenever one of the ids is not stored, and a           *)
(* destroy_many that raises leaves the store as it was before the call.    *)
(***************************************************************************)
C17_DictBatchAllOrNothing ==
  (backend = "dict" /\ ret.op \in {"read_many", "destroy_many"}) =>
    /\ (\E i \in DOMAIN ret.args : str(ret.args[i]) \notin DOMAIN pre.db_conn)
         => ret.raised = "FourOhFourException"
    /\ (ret.op = "destroy_many" /\ ~Returned) => db_conn = pre.db_conn

(***************************************************************************)
(* C18: RedisQueryset.destroy_many(ids) fetches every id before it deletes *)
(* any, then deletes every id, those that had no value too: position i     *)
(* pairs the status of the i-th hdel (UPDATED when the id was stored and   *)
(* no earlier position named it, FAILED otherwise) with the decoded value  *)
(* the id had before the call, so a repeated id reports UPDATED with the   *)
(* value first and FAILED with the same value afterwards; no id of the     *)
(* list is stored afterwards and no other entry has changed.               *)
(***************************************************************************)
C18_RedisDestroyManyTwoRounds ==
  (backend = "redis" /\ ret.op = "destroy_many") =>
    /\ Returned
    /\ ret.list
    /\ Len(ret.out) = Len(ret.args)
    /\ \A i \in DOMAIN ret.out :
         LET key == str(ret.args[i])
             stored == key \in DOMAIN pre.hash
             first == \A j \in 1..(i - 1) : str(ret.args[j]) # key
         IN ret.out[i] =
              Pair(IF stored /\ first THEN MSG_UPDATED ELSE MSG_FAILED,
                   RedisReadValue(IF stored THEN pre.hash[key] ELSE None))
    /\ \A i \in DOMAIN ret.args : str(ret.args[i]) \notin DOMAIN hash
    /\ SameExcept(pre, Stores, {ret.args[i] : i \in DOMAIN ret.args})

C18_Witness ==
  /\ backend = "redis"
  /\ ret.op = "destroy_many"
  /\ Len(ret.args) = 2
  /\ ret.args[1] = ret.args[2]
  /\ ret.out[1].status = MSG_UPDATED
  /\ ret.out[2].status = MSG_FAILED
  /\ ret.out[2].payload = ret.out[1].payload
  /\ ret.out[2].payload.k = "plain"

(***************************************************************************)
(* C19: with another client writing to and deleting from the same Redis    *)
(* hash, a destroy_many over distinct ids returns at every UPDATED         *)
(* position the decoded value that its delete removed (the value the hash  *)
(* held when the delete round began) and at every FAILED position no       *)
(* value, whatever the other client did between the fetch round and the    *)
(* delete round.                                                           *)
(***************************************************************************)
C19_DestroyManyPayloadIsRemovedValue ==
  (backend = "redis" /\ ret.op = "destroy_many" /\ Returned /\ Distinct(ret.args)) =>
    \A i \in DOMAIN ret.out :
      LET key == str(ret.args[i]) IN
      /\ ret.out[i].status = MSG_UPDATED =>
           /\ key \in DOMAIN pre.hash
           /\ ret.out[i].payload = RedisReadValue(pre.hash[key])
      /\ ret.out[i].status = MSG_FAILED => ret.out[i].payload = None

(***************************************************************************)
(* C20: the value transform of RedisQueryset is a round trip and is        *)
(* transparent: _readvalue(_setvalue(item)) is the item's plain data with  *)
(* compress on and with compress off, _readvalue of the reply for an       *)
(* absent key is None, and over every sequence of calls the instance built *)
(* with compress=True returns what the instance built with compress=False  *)
(* returns, statuses and payloads alike, and stores the same keys.  Reads  *)
(* never raise; at an absent key read_many yields FAILED with an empty     *)
(* payload and read_one yields FAILED with the requested identifier.       *)
(***************************************************************************)
RoundTrip ==
  /\ \A shield \in Shields : RedisReadValue(RedisSetValue(shield)) = to_python(shield)
  /\ RedisReadValue(None) = None

TwinsAgree ==
  inflight.pc = "idle" =>
    /\ twin_ret = ret
    /\ DOMAIN twin = DOMAIN hash
    /\ \A key \in DOMAIN hash :
         /\ hash[key] = to_json(json_loads(hash[key]))
         /\ twin[key] = zlib_compress(hash[key])

ReadsReturn ==
  ret.op \in {"read_all", "read_one", "read_many"} => Returned

AbsentAt(i) == str(ret.args[i]) \notin DOMAIN pre.hash

C20_TransformTransparent ==
  backend = "redis" =>
    /\ RoundTrip
    /\ TwinsAgree
    /\ ReadsReturn
    /\ ret.op = "read_many" =>
         \A i \in DOMAIN ret.args : AbsentAt(i) => ret.out[i] = Pair(MSG_FAILED, None)
    /\ (ret.op = "read_one" /\ AbsentAt(1)) =>
         ret.out[1] = Pair(MSG_FAILED, IdP(ret.args[1]))

\* C20 as stated: every read of an absent key, read_one too, yields an empty
\* payload
C20_AbsentReadsAreEmpty ==
  backend = "redis" =>
    /\ RoundTrip
    /\ TwinsAgree
    /\ ReadsReturn
    /\ ret.op \in {"read_one", "read_many"} =>
         \A i \in DOMAIN ret.args : AbsentAt(i) => ret.out[i].payload = None

C20_Witness ==
  /\ backend = "redis"
  /\ inflight.pc = "idle"
  /\ ret.op = "read_many"
  /\ \E i, j \in DOMAIN ret.args :
       /\ AbsentAt(i)
       /\ twin_ret.out[i] = Pair(MSG_FAILED, None)
       /\ ~AbsentAt(j)
       /\ twin_ret.out[j] = Pair(MSG_OK, json_loads(pre.hash[str(ret.args[j])]))
  /\ twin # hash

====
